---------------------------- MODULE Spec2Model ----------------------------
(***************************************************************************)
(* A model of homework.py: the fitness-tracker module that turns a batch   *)
(* of (workout code, sensor readings) packages into one report line each.  *)
(*                                                                         *)
(* Numbers.  The program computes with Python ints and floats.  The model  *)
(* keeps every number as an exact non-negative fraction num/den of two     *)
(* arbitrary-size naturals, so that the formulas are evaluated in the      *)
(* order and with the constants of the code; the binary rounding of a      *)
(* float is not modelled.  Readings are natural numbers.                   *)
(*                                                                         *)
(* Text.  The Cyrillic labels of MESSAGE_TEMPLATE are written in Latin     *)
(* transliteration, because a TLA+ string holds ASCII only.                *)
(***************************************************************************)
EXTENDS Naturals, Sequences, FiniteSets, TLC

(***************************************************************************)
(* Arbitrary-size naturals: little-endian sequences of limbs in base Base, *)
(* without leading zero limbs; <<>> is zero.                               *)
(***************************************************************************)
Base == 100 * 100

\* limb i of a, 0 above its top limb
Limb(a, i) == IF i \in DOMAIN a THEN a[i] ELSE 0

\* the place of the top non-zero limb of a, 0 if it has none
BigTop(a) ==
    IF \A i \in DOMAIN a : a[i] = 0 THEN 0
    ELSE CHOOSE i \in DOMAIN a :
             a[i] # 0 /\ \A j \in (i + 1) .. Len(a) : a[j] = 0

BigNorm(a) == SubSeq(a, 1, BigTop(a))

\* a natural below Base^3
BigOf(n) == BigNorm(<<n % Base, (n \div Base) % Base, n \div (Base * Base)>>)

\* the carry into limb i of a + b: a limb below overflowed and every limb
\* between passed the carry on
AddCarry(a, b, i) ==
    \E j \in 1 .. (i - 1) :
        /\ Limb(a, j) + Limb(b, j) >= Base
        /\ \A k \in (j + 1) .. (i - 1) : Limb(a, k) + Limb(b, k) = Base - 1

AddLimb(a, b, i) ==
    (Limb(a, i) + Limb(b, i) + (IF AddCarry(a, b, i) THEN 1 ELSE 0)) % Base

\* the n limbs of a + b
BigAddTo(a, b, n) == BigNorm(SubSeq([i \in 1 .. n |-> AddLimb(a, b, i)], 1, n))

\* a + b, of limbs that may have zeros on top
BigAdd(a, b) ==
    IF Len(a) > Len(b) THEN BigAddTo(a, b, Len(a) + 1)
    ELSE BigAddTo(a, b, Len(b) + 1)

BigLess(a, b) ==
    IF Len(a) # Len(b) THEN Len(a) < Len(b)
    ELSE \E i \in DOMAIN a :
             a[i] < b[i] /\ \A j \in (i + 1) .. Len(a) : a[j] = b[j]

BigLeq(a, b) == ~BigLess(b, a)

\* the borrow from limb i of a - b
SubBorrow(a, b, i) ==
    \E j \in 1 .. (i - 1) :
        /\ a[j] < Limb(b, j)
        /\ \A k \in (j + 1) .. (i - 1) : a[k] = Limb(b, k)

SubLimb(a, b, i) ==
    (a[i] + Base - Limb(b, i) - (IF SubBorrow(a, b, i) THEN 1 ELSE 0)) % Base

\* a - b for a >= b
BigSub(a, b) ==
    IF b = <<>> THEN a
    ELSE BigNorm(SubSeq([i \in DOMAIN a |-> SubLimb(a, b, i)], 1, Len(a)))

\* a * m for m <= Base: the low halves of the products of the limbs, and
\* their high halves one limb up
BigMulSmall(a, m) ==
    IF a = <<>> THEN a
    ELSE BigAdd(SubSeq([i \in DOMAIN a |-> (a[i] * m) % Base], 1, Len(a)),
                <<0>> \o [i \in DOMAIN a |-> (a[i] * m) \div Base])

\* the sum of a[i] * b[k + 1 - i] for i in lo..hi
RECURSIVE ColumnSum(_, _, _, _, _)
ColumnSum(a, b, k, lo, hi) ==
    IF lo > hi THEN 0
    ELSE IF lo = hi THEN a[lo] * b[k + 1 - lo]
    ELSE ColumnSum(a, b, k, lo, (lo + hi) \div 2)
         + ColumnSum(a, b, k, (lo + hi) \div 2 + 1, hi)

\* column k of the long multiplication of a and b
Column(a, b, k) ==
    ColumnSum(a, b, k, IF k > Len(b) THEN k + 1 - Len(b) ELSE 1,
              IF k < Len(a) THEN k ELSE Len(a))

\* the n columns c put together; every column is below Base^3
BigCarry(c, n) ==
    BigAdd(BigAdd(SubSeq([k \in 1 .. n |-> c[k] % Base], 1, n),
                  <<0>> \o [k \in 1 .. n |-> (c[k] \div Base) % Base]),
           <<0, 0>> \o [k \in 1 .. n |-> c[k] \div (Base * Base)])

BigColumns(a, b, n) ==
    BigCarry(SubSeq([k \in 1 .. n |-> Column(a, b, k)], 1, n), n)

BigMul(a, b) ==
    IF a = <<>> \/ b = <<>> THEN <<>>
    ELSE BigColumns(a, b, Len(a) + Len(b) - 1)

\* the digit p + u * d, d in 0..9, the largest with b * digit <= r
BigQuotStage(r, b, p, u) ==
    p + u * Cardinality({d \in 1 .. 9 : BigLeq(BigMulSmall(b, p + u * d), r)})

\* the largest digit q in 0..Base-1 with b * q <= r, one decimal place of it
\* after the other
BigQuotDigit(r, b) ==
    BigQuotStage(r, b,
        BigQuotStage(r, b,
            BigQuotStage(r, b, BigQuotStage(r, b, 0, 1000), 100), 10), 1)

\* the long division by b of the limbs i and below of a, with quotient q and
\* remainder r of the limbs above
RECURSIVE BigDivModAt(_, _, _, _, _)

\* d is the next digit of the quotient; a digit of 0 takes nothing off r0
BigDivPut(a, b, i, q, r0, d) ==
    IF d = 0 THEN BigDivModAt(a, b, i - 1, <<0>> \o q, r0)
    ELSE BigDivModAt(a, b, i - 1, <<d>> \o q, BigSub(r0, BigMulSmall(b, d)))

\* r0 is the remainder with limb i brought down
BigDivBring(a, b, i, q, r0) == BigDivPut(a, b, i, q, r0, BigQuotDigit(r0, b))

BigDivModAt(a, b, i, q, r) ==
    IF i = 0 THEN [q |-> BigNorm(q), r |-> r]
    ELSE BigDivBring(a, b, i, q, BigNorm(<<a[i]>> \o r))

\* a \div b and a % b for b # 0; the top limbs of a, one fewer than b has,
\* are the first remainder
BigDivMod(a, b) ==
    IF BigLess(a, b) THEN [q |-> <<>>, r |-> a]
    ELSE BigDivModAt(a, b, Len(a) - Len(b) + 1, <<>>,
                     SubSeq(a, Len(a) - Len(b) + 2, Len(a)))

\* a \div g for a divisor g of both Base and a
BigDivSmall(a, g) ==
    BigNorm(SubSeq([i \in DOMAIN a |->
                       (Limb(a, i + 1) % g) * (Base \div g) + a[i] \div g],
                   1, Len(a)))

BaseDivisors == {g \in 1 .. Base : Base % g = 0}

\* the greatest divisor of Base that divides both m and n
BaseGCD(m, n) ==
    CHOOSE g \in BaseDivisors :
        /\ m % g = 0 /\ n % g = 0
        /\ \A h \in BaseDivisors : (m % h = 0 /\ n % h = 0) => h <= g

BigIsEven(a) == Limb(a, 1) % 2 = 0

Pow10 == <<1, 10, 100, 1000>>

\* 10^k for k <= 3
BigPow10(k) == <<Pow10[k + 1]>>

(***************************************************************************)
(* Python values.  A number is [num, den]; None is a value of its own; an  *)
(* expression that raises evaluates to the exception [exc |-> name], which *)
(* every operator hands on from its operands, left operand first.          *)
(***************************************************************************)
None == [none |-> TRUE]

Raise(name) == [exc |-> name]

IsExc(v) == "exc" \in DOMAIN v

IsNum(v) == "num" \in DOMAIN v

\* num and den without the factors of Base that the low limbs of the two
\* share: the fraction g * num / g * den is num / den
Cancel(num, den, g) ==
    [num |-> BigDivSmall(num, g), den |-> BigDivSmall(den, g)]

Reduce(num, den) ==
    IF num = <<>> THEN [num |-> <<>>, den |-> <<1>>]
    ELSE Cancel(num, den, BaseGCD(Limb(num, 1), Limb(den, 1)))

\* an int
Int(n) == [num |-> BigOf(n), den |-> BigOf(1)]

\* a decimal literal: digits d with k of them after the point (0.65 = Dec(65, 2))
Dec(d, k) == Reduce(BigOf(d), BigPow10(k))

\* x == y on numbers
NumEq(x, y) ==
    /\ IsNum(x)
    /\ IsNum(y)
    /\ BigMul(x.num, y.den) = BigMul(y.num, x.den)

NumIsZero(x) == x.num = <<>>

\* x * y
Mul(x, y) ==
    IF "exc" \in DOMAIN x THEN x ELSE IF "exc" \in DOMAIN y THEN y
    ELSE Reduce(BigMul(x.num, y.num), BigMul(x.den, y.den))

\* x + y
Add(x, y) ==
    IF "exc" \in DOMAIN x THEN x ELSE IF "exc" \in DOMAIN y THEN y
    ELSE Reduce(BigAdd(BigMul(x.num, y.den), BigMul(y.num, x.den)),
                BigMul(x.den, y.den))

\* x / y: true division, ZeroDivisionError on a zero divisor (int or float)
TrueDiv(x, y) ==
    IF "exc" \in DOMAIN x THEN x ELSE IF "exc" \in DOMAIN y THEN y
    ELSE IF NumIsZero(y) THEN Raise("ZeroDivisionError")
    ELSE Reduce(BigMul(x.num, y.den), BigMul(x.den, y.num))

\* x ** 2
Pow2(x) == Mul(x, x)

\* x * 10^nd rounded to the nearest natural, a tie to the even one
RoundPick(q, twoR, den) ==
    IF BigLess(twoR, den) THEN q
    ELSE IF BigLess(den, twoR) THEN BigAdd(q, <<1>>)
    ELSE IF BigIsEven(q) THEN q ELSE BigAdd(q, <<1>>)

RoundQuot(dm, den) == RoundPick(dm.q, BigAdd(dm.r, dm.r), den)

RoundHalfEven(x, nd) ==
    RoundQuot(BigDivMod(BigMul(x.num, BigPow10(nd)), x.den), x.den)

\* round(x, nd)
Round(x, nd) ==
    IF "exc" \in DOMAIN x THEN x
    ELSE Reduce(RoundHalfEven(x, nd), BigPow10(nd))

(***************************************************************************)
(* Text of a number: format(x, '.3f').                                     *)
(***************************************************************************)
DigitChar == <<"0", "1", "2", "3", "4", "5", "6", "7", "8", "9">>

\* the decimal digits of a, most significant first, four for every limb
BigDigits(a) ==
    SubSeq([p \in 1 .. 4 * Len(a) |->
               (a[Len(a) - ((p - 1) \div 4)] \div Pow10[4 - ((p - 1) % 4)]) % 10],
           1, 4 * Len(a))

\* digit k of ds stays: it is not a zero, or it is one of the last w
Stays(ds, w, k) == ds[k] # 0 \/ k > Len(ds) - w

\* without leading zeros, but at least w digits
StripZeros(ds, w) ==
    SubSeq(ds,
           CHOOSE k \in DOMAIN ds :
               Stays(ds, w, k) /\ \A j \in 1 .. (k - 1) : ~Stays(ds, w, j),
           Len(ds))

\* the digits lo..hi of ds as text
RECURSIVE JoinAt(_, _, _)
JoinAt(ds, lo, hi) ==
    IF lo > hi THEN ""
    ELSE IF lo = hi THEN DigitChar[ds[lo] + 1]
    ELSE JoinAt(ds, lo, (lo + hi) \div 2)
         \o JoinAt(ds, (lo + hi) \div 2 + 1, hi)

Join(ds) == JoinAt(ds, 1, Len(ds))

\* the point before the last three of the digits ds
PointThree(ds) ==
    Join(SubSeq(ds, 1, Len(ds) - 3)) \o "."
        \o Join(SubSeq(ds, Len(ds) - 2, Len(ds)))

\* '{:.3f}'.format(x)
Format3f(x) ==
    PointThree(StripZeros(<<0, 0, 0, 0>> \o BigDigits(RoundHalfEven(x, 3)), 4))

(***************************************************************************)
(* The classes: each class's own attributes, its base, the methods it      *)
(* defines and the dataclass fields it declares.                           *)
(***************************************************************************)
Training_dict ==
    [LEN_STEP |-> Dec(65, 2), M_IN_KM |-> Int(1000), MIN_IN_H |-> Int(60)]

Running_dict ==
    [CALORIES_MEAN_SPEED_MULTIPLIER |-> Int(18),
     CALORIES_MEAN_SPEED_SHIFT |-> Dec(179, 2)]

\* SportsWalking with a KMH_IN_MSEC that is not rounded
SportsWalking_dict_unrounded ==
    LET CM_IN_M  == Int(100)
        MIN_IN_H == Int(60)
    IN  [CALORIES_WEIGHT_MULTIPLIER |-> Dec(35, 3),
         CALORIES_SPEED_HEIGHT_MULTIPLIER |-> Dec(29, 3),
         CM_IN_M |-> CM_IN_M,
         MIN_IN_H |-> MIN_IN_H,
         KMH_IN_MSEC |-> TrueDiv(Mul(CM_IN_M, Int(10)), Pow2(MIN_IN_H))]

\* KMH_IN_MSEC is computed in the class body from the two names above it
SportsWalking_dict ==
    LET CM_IN_M  == Int(100)
        MIN_IN_H == Int(60)
    IN  [CALORIES_WEIGHT_MULTIPLIER |-> Dec(35, 3),
         CALORIES_SPEED_HEIGHT_MULTIPLIER |-> Dec(29, 3),
         CM_IN_M |-> CM_IN_M,
         MIN_IN_H |-> MIN_IN_H,
         KMH_IN_MSEC |->
             Round(TrueDiv(Mul(CM_IN_M, Int(10)), Pow2(MIN_IN_H)), 3)]

\* Swimming without a LEN_STEP of its own, so that it takes the base's
Swimming_dict_inherited ==
    [CALORIES_MEAN_SPEED_SHIFT |-> Dec(11, 1),
     CALORIES_WEIGHT_MULTIPLIER |-> Int(2)]

Swimming_dict ==
    [LEN_STEP |-> Dec(138, 2),
     CALORIES_MEAN_SPEED_SHIFT |-> Dec(11, 1),
     CALORIES_WEIGHT_MULTIPLIER |-> Int(2)]

ClassDict(cls) ==
    CASE cls = "Training"      -> Training_dict
      [] cls = "Running"       -> Running_dict
      [] cls = "SportsWalking" -> SportsWalking_dict
      [] cls = "Swimming"      -> Swimming_dict

BaseOf ==
    [Running |-> "Training", SportsWalking |-> "Training",
     Swimming |-> "Training"]

Methods ==
    [Training |-> {"get_distance", "get_mean_speed", "get_spent_calories",
                   "show_training_info"},
     Running |-> {"get_spent_calories"},
     SportsWalking |-> {"get_spent_calories"},
     Swimming |-> {"get_mean_speed", "get_spent_calories"}]

OwnFields ==
    [Training |-> <<"action", "duration", "weight">>,
     Running |-> <<>>,
     SportsWalking |-> <<"height">>,
     Swimming |-> <<"count_pool", "length_pool">>]

\* the class attribute `name` as seen from cls: cls first, then its bases
RECURSIVE ClassAttr(_, _)

ClassAttrIn(dict, cls, name) ==
    IF name \in DOMAIN dict THEN dict[name] ELSE ClassAttr(BaseOf[cls], name)

ClassAttr(cls, name) == ClassAttrIn(ClassDict(cls), cls, name)

\* the class whose definition of method `name` an instance of cls runs
RECURSIVE Resolve(_, _)
Resolve(cls, name) ==
    IF name \in Methods[cls] THEN cls ELSE Resolve(BaseOf[cls], name)

\* fields(cls): the base's fields, then the class's own
RECURSIVE fields(_)
fields(cls) ==
    IF cls \in DOMAIN BaseOf THEN fields(BaseOf[cls]) \o OwnFields[cls]
    ELSE OwnFields[cls]

\* self.name: an instance field, else a class attribute
Attr(self, name) ==
    IF name \in DOMAIN self THEN Int(self[name])
    ELSE ClassAttr(self.cls, name)

\* a constructor that binds the readings to the fields last to first
Construct_reversed(cls, data) ==
    IF Len(data) # Len(fields(cls)) THEN Raise("TypeError")
    ELSE LET fs == fields(cls)
         IN  [n \in {"cls"} \cup {fs[k] : k \in DOMAIN fs} |->
                 IF n = "cls" THEN cls
                 ELSE data[Len(fs) + 1 - CHOOSE k \in DOMAIN fs : fs[k] = n]]

\* cls(*data), the __init__ the dataclass generates: one positional
\* argument for each field, TypeError on any other number of them
Construct(cls, data) ==
    IF Len(data) # Len(fields(cls)) THEN Raise("TypeError")
    ELSE LET fs == fields(cls)
         IN  [n \in {"cls"} \cup {fs[k] : k \in DOMAIN fs} |->
                 IF n = "cls" THEN cls
                 ELSE data[CHOOSE k \in DOMAIN fs : fs[k] = n]]

(***************************************************************************)
(* The methods.  X_m is method m as class X defines it; m is the call      *)
(* self.m(), which runs the definition the instance's class resolves to.   *)
(***************************************************************************)
Training_get_distance(self) ==
    TrueDiv(Mul(Attr(self, "action"), Attr(self, "LEN_STEP")),
            Attr(self, "M_IN_KM"))

get_distance(self) == Training_get_distance(self)

\* a mean speed that answers 0 for a duration of 0 instead of dividing
Training_get_mean_speed_guarded(self) ==
    IF NumIsZero(Attr(self, "duration")) THEN Int(0)
    ELSE TrueDiv(get_distance(self), Attr(self, "duration"))

Training_get_mean_speed(self) ==
    TrueDiv(get_distance(self), Attr(self, "duration"))

\* a Swimming mean speed taken from the strokes, as the base class does
Swimming_get_mean_speed_strokes(self) ==
    TrueDiv(get_distance(self), Attr(self, "duration"))

Swimming_get_mean_speed(self) ==
    TrueDiv(TrueDiv(Mul(Attr(self, "length_pool"), Attr(self, "count_pool")),
                    Attr(self, "M_IN_KM")),
            Attr(self, "duration"))

get_mean_speed(self) ==
    IF Resolve(self.cls, "get_mean_speed") = "Swimming"
    THEN Swimming_get_mean_speed(self)
    ELSE Training_get_mean_speed(self)

\* the body is `pass`
Training_get_spent_calories(self) == None

Running_get_spent_calories(self) ==
    Mul(Mul(TrueDiv(Mul(Add(Mul(Attr(self, "CALORIES_MEAN_SPEED_MULTIPLIER"),
                                get_mean_speed(self)),
                            Attr(self, "CALORIES_MEAN_SPEED_SHIFT")),
                        Attr(self, "weight")),
                    Attr(self, "M_IN_KM")),
            Attr(self, "duration")),
        Attr(self, "MIN_IN_H"))

SportsWalking_get_spent_calories(self) ==
    Mul(Mul(Add(Mul(Attr(self, "CALORIES_WEIGHT_MULTIPLIER"),
                    Attr(self, "weight")),
                Mul(Mul(TrueDiv(Pow2(Mul(get_mean_speed(self),
                                         Attr(self, "KMH_IN_MSEC"))),
                                TrueDiv(Attr(self, "height"),
                                        Attr(self, "CM_IN_M"))),
                        Attr(self, "CALORIES_SPEED_HEIGHT_MULTIPLIER")),
                    Attr(self, "weight"))),
            Attr(self, "duration")),
        Attr(self, "MIN_IN_H"))

Swimming_get_spent_calories(self) ==
    Mul(Mul(Mul(Add(get_mean_speed(self),
                    Attr(self, "CALORIES_MEAN_SPEED_SHIFT")),
                Attr(self, "CALORIES_WEIGHT_MULTIPLIER")),
            Attr(self, "weight")),
        Attr(self, "duration"))

CallSpentCalories(c, self) ==
    CASE c = "Running"       -> Running_get_spent_calories(self)
      [] c = "SportsWalking" -> SportsWalking_get_spent_calories(self)
      [] c = "Swimming"      -> Swimming_get_spent_calories(self)
      [] OTHER               -> Training_get_spent_calories(self)

get_spent_calories(self) ==
    CallSpentCalories(Resolve(self.cls, "get_spent_calories"), self)

(***************************************************************************)
(* InfoMessage.  MESSAGE_TEMPLATE is an annotated name with a default, so  *)
(* the dataclass makes it a sixth field; the program never passes it.      *)
(***************************************************************************)
MESSAGE_TEMPLATE ==
    << [lit |-> "Tip trenirovki: "], [field |-> "training_type", spec |-> ""],
       [lit |-> "; Dlitel'nost': "], [field |-> "duration", spec |-> ".3f"],
       [lit |-> " ch.; Distantsiya: "], [field |-> "distance", spec |-> ".3f"],
       [lit |-> " km; Sr. skorost': "], [field |-> "speed", spec |-> ".3f"],
       [lit |-> " km/ch; Potracheno kkal: "],
       [field |-> "calories", spec |-> ".3f"],
       [lit |-> "."] >>

InfoMessage(training_type, duration, distance, speed, calories) ==
    [training_type |-> training_type, duration |-> duration,
     distance |-> distance, speed |-> speed, calories |-> calories,
     MESSAGE_TEMPLATE |-> MESSAGE_TEMPLATE]

\* one replacement field: a str as it is, a number to three decimals; None
\* does not take the '.3f' format
FormatValue(v, spec) ==
    IF spec = "" THEN v
    ELSE IF IsNum(v) THEN Format3f(v) ELSE Raise("TypeError")

\* the text of one part of a template: a literal, or a replacement field
FormatPart(part, kwargs) ==
    IF "lit" \in DOMAIN part THEN part.lit
    ELSE FormatValue(kwargs[part.field], part.spec)

\* text, then rest; the first of the two that raised, if one did
Concat(text, rest) ==
    IF text \notin STRING THEN text
    ELSE IF rest \notin STRING THEN rest
    ELSE text \o rest

\* template.format(**kwargs), the parts lo..hi of the template
RECURSIVE FormatFrom(_, _, _, _)
FormatFrom(template, kwargs, lo, hi) ==
    IF lo = hi THEN FormatPart(template[lo], kwargs)
    ELSE Concat(FormatFrom(template, kwargs, lo, (lo + hi) \div 2),
                FormatFrom(template, kwargs, (lo + hi) \div 2 + 1, hi))

\* InfoMessage.get_message
get_message(self) ==
    FormatFrom(self.MESSAGE_TEMPLATE, self, 1, Len(self.MESSAGE_TEMPLATE))

\* Training.show_training_info: the arguments are evaluated in order, and
\* the first that raises ends the call
FirstRaised(training_type, duration, distance, speed, calories) ==
    IF IsExc(distance) THEN distance
    ELSE IF IsExc(speed) THEN speed
    ELSE IF IsExc(calories) THEN calories
    ELSE InfoMessage(training_type, duration, distance, speed, calories)

\* a report with the distance and the speed in each other's place
show_training_info_swapped(self) ==
    FirstRaised(self.cls, Attr(self, "duration"), get_mean_speed(self),
                get_distance(self), get_spent_calories(self))

show_training_info(self) ==
    FirstRaised(self.cls, Attr(self, "duration"), get_distance(self),
                get_mean_speed(self), get_spent_calories(self))

(***************************************************************************)
(* The dispatcher.                                                         *)
(***************************************************************************)
TRAIN_CLASS ==
    [RUN |-> "Running", WLK |-> "SportsWalking", SWM |-> "Swimming"]

COUNT_TYPES == [c \in DOMAIN TRAIN_CLASS |-> Len(fields(TRAIN_CLASS[c]))]

error_message_1 == "V slovare {} net takogo znacheniya"

\* a KeyError whose message names the code that was looked up as well
UnknownTypeError_naming(workout_type) ==
    [exc |-> "KeyError",
     template |-> error_message_1,
     args |-> << [kind |-> "str", value |-> workout_type],
                 [kind |-> "dict", value |-> TRAIN_CLASS] >>]

\* KeyError(error_message_1.format(TRAIN_CLASS)): the message is kept as the
\* template with the values formatted into it
UnknownTypeError(workout_type) ==
    [exc |-> "KeyError",
     template |-> error_message_1,
     args |-> << [kind |-> "dict", value |-> TRAIN_CLASS] >>]

\* a read_package that falls back to the base class for a code it does not
\* know
read_package_fallback(workout_type, data) ==
    IF workout_type \notin DOMAIN TRAIN_CLASS
    THEN [ret |-> Construct("Training", data), invoked |-> <<"Training">>]
    ELSE [ret |-> Construct(TRAIN_CLASS[workout_type], data),
          invoked |-> <<TRAIN_CLASS[workout_type]>>]

\* read_package: what it returns or raises (ret) and the constructors it
\* invoked on the way.  The statements after its return (the comparison of
\* the number of readings with values_count_types and the ValueError) are
\* never executed and have no part here.
read_package(workout_type, data) ==
    IF workout_type \notin DOMAIN TRAIN_CLASS
    THEN [ret |-> UnknownTypeError(workout_type), invoked |-> <<>>]
    ELSE [ret |-> Construct(TRAIN_CLASS[workout_type], data),
          invoked |-> <<TRAIN_CLASS[workout_type]>>]

(***************************************************************************)
(* Inputs.                                                                 *)
(***************************************************************************)
MaxReading == 2

MaxBatch == 2

Readings == 0 .. MaxReading

UnknownCodes == {"XYZ", "run"}

Codes == DOMAIN TRAIN_CLASS \cup UnknownCodes

FieldCounts == {COUNT_TYPES[c] : c \in DOMAIN COUNT_TYPES}

\* one reading more than the longest variant takes
MaxLen == (CHOOSE n \in FieldCounts : \A m \in FieldCounts : m <= n) + 1

\* the sequences of lengths up to MaxLen that repeat one reading
UniformData == {[k \in 1 .. n |-> v] : n \in 0 .. MaxLen, v \in Readings}

\* every code with every uniform sequence, and every known code with every
\* sequence of as many readings as its variant has fields
Packages ==
    {<<c, d>> : c \in Codes, d \in UniformData}
    \cup UNION {{<<c, d>> : d \in [1 .. COUNT_TYPES[c] -> Readings]} :
                   c \in DOMAIN TRAIN_CLASS}

\* the packages of the module's own run
SamplePackages ==
    { <<"SWM", <<720, 1, 80, 25, 40>>>>,
      <<"RUN", <<15000, 1, 75>>>>,
      <<"WLK", <<9000, 1, 75, 180>>>> }

\* packages on which the run fails: an unknown code, a reading too few, a
\* duration of zero, a height of zero
FailingPackages ==
    { <<"XYZ", <<1, 1, 1>>>>,
      <<"RUN", <<1, 1>>>>,
      <<"SWM", <<1, 0, 1, 1, 1>>>>,
      <<"WLK", <<1, 1, 1, 0>>>> }

\* a batch: one package out of Packages, or up to MaxBatch packages out of
\* the samples and the failing ones
Batches ==
    {<<p>> : p \in Packages}
    \cup UNION {[1 .. n -> SamplePackages \cup FailingPackages] :
                   n \in 0 .. MaxBatch}

(***************************************************************************)
(* The run: `for workout_type, data in packages: main(read_package(...))`. *)
(***************************************************************************)
VARIABLES
    packages,   \* the batch
    i,          \* the place in packages of the pair the loop is at
    pc,         \* "for", "read_package", "main", "print", "exit", "raised"
    training,   \* the record read_package returned, or None
    info,       \* the InfoMessage show_training_info returned, or None
    stdout,     \* the lines printed
    exc,        \* the exception that ended the run, or None
    calls       \* history: <<k, callable>> for every call made for pair k

vars == <<packages, i, pc, training, info, stdout, exc, calls>>

Init ==
    /\ packages \in Batches
    /\ i = 1
    /\ pc = "for"
    /\ training = None
    /\ info = None
    /\ stdout = <<>>
    /\ exc = None
    /\ calls = <<>>

\* the for statement: the next pair, or the end of the loop
ForLoop ==
    /\ pc = "for"
    /\ \/ /\ i <= Len(packages)
          /\ pc' = "read_package"
       \/ /\ i > Len(packages)
          /\ pc' = "exit"
    /\ UNCHANGED <<packages, i, training, info, stdout, exc, calls>>

\* a loop that drops a pair read_package fails on and goes on to the next
ReadPackage_skipping ==
    /\ pc = "read_package"
    /\ LET r == read_package(packages[i][1], packages[i][2])
           cs == calls \o <<<<i, "read_package">>>>
                       \o [k \in DOMAIN r.invoked |-> <<i, r.invoked[k]>>]
       IN  /\ calls' = cs
           /\ \/ /\ IsExc(r.ret)
                 /\ i' = i + 1
                 /\ pc' = "for"
                 /\ UNCHANGED <<training, exc>>
              \/ /\ ~IsExc(r.ret)
                 /\ training' = r.ret
                 /\ pc' = "main"
                 /\ UNCHANGED <<i, exc>>
    /\ UNCHANGED <<packages, info, stdout>>

\* read_package(workout_type, data)
ReadPackage ==
    /\ pc = "read_package"
    /\ LET r == read_package(packages[i][1], packages[i][2])
           cs == calls \o <<<<i, "read_package">>>>
                       \o [k \in DOMAIN r.invoked |-> <<i, r.invoked[k]>>]
       IN  /\ calls' = cs
           /\ \/ /\ IsExc(r.ret)
                 /\ exc' = r.ret
                 /\ pc' = "raised"
                 /\ UNCHANGED training
              \/ /\ ~IsExc(r.ret)
                 /\ training' = r.ret
                 /\ pc' = "main"
                 /\ UNCHANGED exc
    /\ UNCHANGED <<packages, i, info, stdout>>

\* main(training), first half: training.show_training_info()
ShowTrainingInfo ==
    /\ pc = "main"
    /\ LET r == show_training_info(training)
       IN  \/ /\ IsExc(r)
              /\ exc' = r
              /\ pc' = "raised"
              /\ UNCHANGED info
           \/ /\ ~IsExc(r)
              /\ info' = r
              /\ pc' = "print"
              /\ UNCHANGED exc
    /\ calls' = Append(calls, <<i, "show_training_info">>)
    /\ UNCHANGED <<packages, i, training, stdout>>

\* main(training), second half: print(info.get_message()); main returns and
\* the loop goes on to the next pair
PrintMessage ==
    /\ pc = "print"
    /\ LET m == get_message(info)
       IN  /\ m \in STRING
           /\ stdout' = Append(stdout, m)
    /\ calls' = Append(calls, <<i, "print">>)
    /\ i' = i + 1
    /\ pc' = "for"
    /\ training' = None
    /\ info' = None
    /\ UNCHANGED <<packages, exc>>

Next == ForLoop \/ ReadPackage \/ ShowTrainingInfo \/ PrintMessage

Spec == Init /\ [][Next]_vars

TypeOK ==
    /\ pc \in {"for", "read_package", "main", "print", "exit", "raised"}
    /\ i \in 1 .. Len(packages) + 1

(***************************************************************************)
(* The properties.  They speak of the pair the loop is at, and of what the *)
(* history `calls` tells of the calls made for it.                         *)
(***************************************************************************)
Range(s) == {s[k] : k \in DOMAIN s}

KnownCodes == {"RUN", "WLK", "SWM"}

ExpectedCount == [RUN |-> 3, WLK |-> 4, SWM |-> 5]

ExpectedName == [RUN |-> "Running", WLK |-> "SportsWalking", SWM |-> "Swimming"]

\* the record that binds the readings d to the declared fields of the
\* variant of code c, in their order
ExpectedRecord(c, d) ==
    CASE c = "RUN" -> [cls |-> "Running", action |-> d[1], duration |-> d[2],
                       weight |-> d[3]]
      [] c = "WLK" -> [cls |-> "SportsWalking", action |-> d[1],
                       duration |-> d[2], weight |-> d[3], height |-> d[4]]
      [] c = "SWM" -> [cls |-> "Swimming", action |-> d[1], duration |-> d[2],
                       weight |-> d[3], count_pool |-> d[4],
                       length_pool |-> d[5]]

\* read_package has been called for the pair the loop is at, and has ended
Dispatched == i <= Len(packages) /\ pc \in {"main", "print", "raised"}

\* show_training_info has been called for the pair the loop is at
Reported == Dispatched /\ <<i, "show_training_info">> \in Range(calls)

\* the pair the loop is at has a known code and as many readings as the
\* variant of the code has fields
WellFormed ==
    /\ i <= Len(packages)
    /\ packages[i][1] \in KnownCodes
    /\ Len(packages[i][2]) = ExpectedCount[packages[i][1]]

\* the constructors called for the pair the loop is at
Constructed == {c \in Range(calls) : c[1] = i /\ c[2] # "read_package"
                                      /\ c[2] # "show_training_info"}

ZeroDivisionError == Raise("ZeroDivisionError")

\* C1: whenever read_package has been called with a code other than 'RUN',
\* 'WLK' and 'SWM', whatever the readings, it has raised a KeyError, which
\* ended the run, and no constructor was called and no record returned.
C1_UnknownCodeRaisesKeyError ==
    (Dispatched /\ packages[i][1] \notin KnownCodes) =>
        /\ pc = "raised"
        /\ IsExc(exc)
        /\ exc.exc = "KeyError"
        /\ training = None
        /\ Constructed = {}

C1_Witness ==
    /\ pc = "raised"
    /\ packages[i] = <<"XYZ", <<1, 1, 1>>>>
    /\ IsExc(exc)
    /\ exc.exc = "KeyError"

\* C2: whenever read_package has been called with a known code and a number
\* of readings other than the variant's field count, it has raised a
\* ValueError without calling the variant's constructor.
C2_WrongLengthRaisesValueError ==
    (Dispatched /\ packages[i][1] \in KnownCodes
       /\ Len(packages[i][2]) # ExpectedCount[packages[i][1]]) =>
        /\ pc = "raised"
        /\ IsExc(exc)
        /\ exc.exc = "ValueError"
        /\ Constructed = {}

\* C3: whenever read_package has been called with a known code and as many
\* readings as the variant has fields, it has returned a record of the
\* variant the code maps to whose fields, in declared order, are the
\* readings in the same places.
C3_KnownCodeBindsReadings ==
    (Dispatched /\ WellFormed) =>
        /\ training = ExpectedRecord(packages[i][1], packages[i][2])
        /\ Constructed = {<<i, ExpectedName[packages[i][1]]>>}
        /\ pc = "raised" => Reported

C3_Witness ==
    /\ pc = "main"
    /\ packages[i][1] = "SWM"
    /\ training = [cls |-> "Swimming", action |-> 2, duration |-> 1,
                   weight |-> 0, count_pool |-> 1, length_pool |-> 2]

\* C4 as claimed: the KeyError of an unknown code carries the code that was
\* passed, together with the set of known codes.
C4_ErrorCarriesCode ==
    (pc = "raised" /\ IsExc(exc) /\ exc.exc = "KeyError") =>
        /\ \E k \in DOMAIN exc.args :
               exc.args[k].kind = "str" /\ exc.args[k].value = packages[i][1]
        /\ \E k \in DOMAIN exc.args :
               exc.args[k].kind = "dict"
               /\ DOMAIN exc.args[k].value = KnownCodes

\* C4: the KeyError of an unknown code carries the dispatch table, whose
\* keys are the known codes, and nothing else: the code that was passed is
\* not in it, and the error is the same for every unknown code.
C4_ErrorCarriesTableOnly ==
    (pc = "raised" /\ IsExc(exc) /\ exc.exc = "KeyError") =>
        /\ packages[i][1] \notin KnownCodes
        /\ Len(exc.args) = 1
        /\ exc.args[1].kind = "dict"
        /\ DOMAIN exc.args[1].value = KnownCodes
        /\ exc.args[1].value = ExpectedName

C4_Witness ==
    /\ pc = "raised"
    /\ packages[i][1] = "run"
    /\ IsExc(exc)
    /\ exc.exc = "KeyError"
    /\ Len(exc.args) = 1

\* the line the program prints for a record, a report, a package, or the
\* exception that the way to it raises
LineOfReport(m) == IF IsExc(m) THEN m ELSE get_message(m)

LineOfRecord(t) == IF IsExc(t) THEN t ELSE LineOfReport(show_training_info(t))

LineOf(p) == LineOfRecord(read_package(p[1], p[2]).ret)

\* C5: the lines printed are those of the pairs before the one the loop is
\* at, one for each and in the order of the batch; no call is ever made for
\* a later pair; and when a pair raises, in read_package or in building the
\* report, the run ends there with that exception, the earlier pairs
\* printed and the failing one not.
C5_LinesInOrderUntilError ==
    /\ Len(stdout) = i - 1
    /\ \A k \in DOMAIN stdout : stdout[k] = LineOf(packages[k])
    /\ SelectSeq(calls, LAMBDA c : c[2] = "print")
           = [k \in 1 .. (i - 1) |-> <<k, "print">>]
    /\ \A c \in Range(calls) : c[1] <= i
    /\ pc = "raised" =>
           /\ IsExc(exc)
           /\ exc = LineOf(packages[i])
           /\ <<i, "print">> \notin Range(calls)
    /\ pc = "exit" => exc = None /\ i = Len(packages) + 1

C5_Witness ==
    /\ pc = "raised"
    /\ i = 2
    /\ Len(packages) = 2
    /\ packages[1] = <<"SWM", <<720, 1, 80, 25, 40>>>>
    /\ Len(stdout) = 1

\* length_pool * count_pool / 1000 / duration
PoolSpeed(length_pool, count_pool, duration) ==
    TrueDiv(TrueDiv(Mul(Int(length_pool), Int(count_pool)), Int(1000)),
            Int(duration))

\* C6: the mean speed of a Swimming record with a duration above 0 is
\* length_pool * count_pool / 1000 / duration, and so is that of every
\* Swimming record that differs from it in action and weight only; the mean
\* speed of a Running or SportsWalking record is get_distance() / duration.
C6_SwimmingSpeedFromPool ==
    (training # None /\ training.duration > 0) =>
        IF training.cls = "Swimming"
        THEN \A a \in Readings \cup {training.action} :
             \A w \in Readings \cup {training.weight} :
                 NumEq(get_mean_speed([training EXCEPT !.action = a,
                                                       !.weight = w]),
                       PoolSpeed(training.length_pool, training.count_pool,
                                 training.duration))
        ELSE NumEq(get_mean_speed(training),
                   TrueDiv(get_distance(training), Int(training.duration)))

C6_Witness ==
    /\ pc = "main"
    /\ training # None
    /\ training.cls = "Swimming"
    /\ training.duration = 2
    /\ training.action = 2
    /\ training.count_pool = 1
    /\ training.length_pool = 1

\* the length of one action in hundredths of a metre
UnitOf(cls) == IF cls = "Swimming" THEN 138 ELSE 65

\* C7: the distance of every record read_package returned is
\* action * unit / 1000, with unit 0.65 for Running and SportsWalking and
\* 1.38 for Swimming, whatever the other fields are.
C7_DistanceFromAction ==
    training # None =>
        NumEq(get_distance(training),
              [num |-> BigOf(training.action * UnitOf(training.cls)),
               den |-> BigOf(100 * 1000)])

C7_Witness ==
    /\ pc = "main"
    /\ training # None
    /\ training.cls = "Swimming"
    /\ training.action = 2
    /\ training.duration = 0

\* (18 * speed + 1.79) * weight / 1000 * duration * 60
RunningCalories(speed, weight, duration) ==
    Mul(Mul(TrueDiv(Mul(Add(Mul(Int(18), speed), Dec(179, 2)), Int(weight)),
                    Int(1000)),
            Int(duration)),
        Int(60))

\* (0.035 * weight + (speed * 0.278)^2 / (height / 100) * 0.029 * weight)
\* * duration * 60
WalkingCalories(speed, weight, duration, height) ==
    Mul(Mul(Add(Mul(Dec(35, 3), Int(weight)),
                Mul(Mul(TrueDiv(Pow2(Mul(speed, Dec(278, 3))),
                                TrueDiv(Int(height), Int(100))),
                        Dec(29, 3)),
                    Int(weight))),
            Int(duration)),
        Int(60))

\* (speed + 1.1) * 2 * weight * duration
SwimmingCalories(speed, weight, duration) ==
    Mul(Mul(Mul(Add(speed, Dec(11, 1)), Int(2)), Int(weight)), Int(duration))

\* the closed form of the variant of record t at the speed given
ClosedForm(t, speed) ==
    CASE t.cls = "Running" -> RunningCalories(speed, t.weight, t.duration)
      [] t.cls = "SportsWalking" ->
             WalkingCalories(speed, t.weight, t.duration, t.height)
      [] t.cls = "Swimming" -> SwimmingCalories(speed, t.weight, t.duration)

\* the calories c are a number, the closed form at the speed given
IsClosedForm(c, t, speed) ==
    IsNum(speed) /\ IsNum(c) /\ NumEq(c, ClosedForm(t, speed))

\* C8: for every record read_package returned with a duration above 0, and
\* a height above 0 if it is a SportsWalking record, get_spent_calories is
\* a number, the closed form of the record's variant at the record's own
\* mean speed (for Swimming the speed from the pool).
C8_CaloriesClosedForm ==
    (/\ training # None
     /\ training.duration > 0
     /\ training.cls = "SportsWalking" => training.height > 0) =>
        /\ IsClosedForm(get_spent_calories(training), training,
                        get_mean_speed(training))
        /\ training.cls = "Swimming" =>
               IsClosedForm(get_spent_calories(training), training,
                            PoolSpeed(training.length_pool,
                                      training.count_pool, training.duration))

C8_Witness ==
    /\ pc = "main"
    /\ training = [cls |-> "SportsWalking", action |-> 9000, duration |-> 1,
                   weight |-> 75, height |-> 180]

\* the report of the pair the loop is at is made of the record's own name,
\* duration, distance, speed and calories, and the record is as read_package
\* returned it
ReportOfRecord ==
    /\ pc = "print"
    /\ info.training_type = ExpectedName[packages[i][1]]
    /\ info.duration = Int(packages[i][2][2])
    /\ info.distance = get_distance(training)
    /\ info.speed = get_mean_speed(training)
    /\ info.calories = get_spent_calories(training)
    /\ IsNum(info.distance) /\ IsNum(info.speed) /\ IsNum(info.calories)
    /\ training = ExpectedRecord(packages[i][1], packages[i][2])

\* C9 as claimed: for every record read_package returned with a duration
\* above 0, show_training_info returns the report of the record.
C9_ReportForPositiveDuration ==
    (Reported /\ WellFormed /\ packages[i][2][2] > 0) => ReportOfRecord

\* C9: for every record read_package returned with a duration above 0, and
\* a height above 0 if it is a SportsWalking record, show_training_info
\* returns a report with the name of the record's variant, the record's
\* duration, and the distance, speed and calories that the record's own
\* methods give; the record's fields are as before the call.
C9_ReportForPositiveDurationAndHeight ==
    (/\ Reported
     /\ WellFormed
     /\ packages[i][2][2] > 0
     /\ packages[i][1] = "WLK" => packages[i][2][4] > 0) => ReportOfRecord

C9_Witness ==
    /\ pc = "print"
    /\ packages[i] = <<"SWM", <<720, 1, 80, 25, 40>>>>
    /\ info.training_type = "Swimming"
    /\ info.speed = Int(1)

\* C10: a duration of 0 passes read_package, which returns the record; on
\* that record get_mean_speed, get_spent_calories and show_training_info
\* raise ZeroDivisionError while get_distance gives a number, and the run
\* ends in show_training_info with that error, no report made and no line
\* printed for the pair.
C10_ZeroDurationFailsLate ==
    (Dispatched /\ WellFormed /\ packages[i][2][2] = 0) =>
        /\ training = ExpectedRecord(packages[i][1], packages[i][2])
        /\ get_mean_speed(training) = ZeroDivisionError
        /\ get_spent_calories(training) = ZeroDivisionError
        /\ show_training_info(training) = ZeroDivisionError
        /\ IsNum(get_distance(training))
        /\ pc # "print"
        /\ info = None
        /\ Len(stdout) = i - 1
        /\ pc = "raised" => Reported /\ exc = ZeroDivisionError

C10_Witness ==
    /\ pc = "raised"
    /\ exc = ZeroDivisionError
    /\ training # None
    /\ training.cls = "SportsWalking"
    /\ training.duration = 0
    /\ training.action = 2
    /\ training.height = 1
=============================================================================
